---- MODULE Spec2Model ----
(***************************************************************************)
(* Negative-pair sampling engine of ImRex                                  *)
(* (src/src/processing/negative_sampler.py): add_negatives with its two    *)
(* shuffling strategies sample_epitope_per_cdr3 / sample_cdr3s_per_epitope *)
(* and augment_negatives.                                                  *)
(*                                                                         *)
(* A DataFrame is a sequence of rows <<cdr3, epitope, y>>; a missing       *)
(* epitope (np.NaN) is the value NaN.  The reference file is the set of    *)
(* its (cdr3, epitope) pairs.  Random draws are computed as numpy computes *)
(* them: RandomState(seed) is the MT19937 stream of that seed, and         *)
(* permutation(n) is numpy's Fisher-Yates shuffle over that stream.        *)
(***************************************************************************)
EXTENDS Integers, Sequences, FiniteSets, TLC

(* ------------------------------ bounds -------------------------------- *)
\* longest positive corpus handed to add_negatives / augment_negatives
MaxRows == 3
\* largest number of pairs in the reference file
MaxRef == 1
\* longest background pool handed to augment_negatives
MaxPool == 3
\* values other code draws from the global generator between two calls
OtherDraws == 1

(* ----------------------------- universe ------------------------------- *)
CDR3Names == <<"A", "B", "C", "D">>
EpitopeNames == <<"X", "Y", "Z", "W">>
PoolNames == <<"P", "Q">>
NaN == "NaN"

Range(s) == {s[i] : i \in DOMAIN s}
AllPairs == {<<c, e>> : c \in Range(CDR3Names), e \in Range(EpitopeNames)}

(* ------------------- numpy.random (MT19937, legacy) ------------------- *)
\* The 32-bit outputs of numpy.random.RandomState(seed), seed = 0 .. 149, low
\* six bits each, five outputs to an entry: output k (k >= 1) is the base-64
\* digit (k - 1) % 5 of MTBits[seed + 1][(k - 1) \div 5 + 1].
MTBits ==
  << <<50551788,321286395,106843285,32032280,414808550,137730385,860042505,12386181,868583634,658060509,1071943776,399550432,935903139,603981980,883057013,715408337,17270778,646945383,457892599,215364480>>,
     <<1059113701,3953353,756858960,348754364,189868414,242600636,693989682,377613809,1058839117,497085,224429180,149335027,353907166,403717745,879282929,312949584,795099151,426276322,655136168,462673406>>,
     <<371381224,127972523,355335266,342491119,60710204,867082534,981903783,403980284,326921092,876619769,437461806,1067389951,985080366,925030991,904627601,1018863177,729890714,203630240,1015710398,370826633>>,
     <<940545578,334843912,178756298,344092117,943355756,39429210,856149954,565870938,1055754909,998686215,508713999,876344689,224732,637486249,1033141816,352786542,1017949685,1061271780,315164688,226364875>>,
     <<18316218,164136424,515276602,614702583,721054514,366739700,653681237,517398712,401091656,766196256,481814561,574569603,298581599,992318576,516518704,201056470,656092695,304380589,365116791,997082078>>,
     <<653718435,606114870,516013991,826065360,745343477,515642061,1045157268,698786425,278732926,268673358,866536324,638592987,826881257,766657013,61652894,453996668,428201678,242811349,798529498,1001791824>>,
     <<710029898,1044554733,959754329,783424474,201885764,84539092,375715517,831806194,38005060,357560511,99006268,685565618,1063952773,19747018,1000696018,61539881,568375559,260328588,995613637,821071942>>,
     <<64590127,963802579,778339790,647792298,740293636,116093632,100585235,819426872,948440955,772957065,135149001,268442643,481417206,690582012,387960867,609619420,468465763,319927521,635825889,536680265>>,
     <<94835971,1067528730,837901168,229749427,578092873,496559291,890450552,699118069,623272090,263003069,385791708,139908383,180221724,638243264,955140039,74346265,642263781,787117494,159510953,573039074>>,
     <<920119102,32861944,983809302,560946737,787482397,501261883,216255166,940017042,642667235,836829815,988600895,984732513,684290038,986856772,71533184,325271919,149703198,464920640,924638444,785581042>>,
     <<4083529,493211377,149624688,916627465,798035172,984452491,244353150,87518449,234462413,427419036,619049036,372626587,472876951,305960458,190872976,472677265,411280673,404504940,584764568,258003944>>,
     <<292360153,126141303,812832274,1035130941,168085636,290618725,55019035,13314758,459146237,959100486,121330459,815793143,890633755,32390279,291274992,243474948,644568659,1028306043,549122736,554732076>>,
     <<838100683,808464578,219630678,181975193,221416768,620377682,1071507555,281633952,163033492,780339117,418225883,948397647,721700868,869579116,735362372,111808303,470301510,592690826,726891961,695552109>>,
     <<641772562,984718626,50022051,171335086,537608905,372061523,407376629,976388828,668420246,986677603,1063458136,891059057,1058778874,643366131,405502995,1056271226,1390500,699767765,474228980,792089147>>,
     <<123258411,175286713,448171856,548365785,170447159,622151040,664967544,758399939,921509435,468490176,853194421,1067482881,326826826,288669249,692028261,1024251263,473668490,70819630,30561330,554637579>>,
     <<924110152,186496768,293010837,1048672237,665076682,1010222309,943612893,545004658,841885333,689658369,687696418,76402191,629317767,1016433863,683873517,405921143,42258350,296434456,1031110579,443098594>>,
     <<18324393,75485499,947456041,550579130,881371073,620812110,753870620,697705011,1070761060,914248620,257326075,280136622,340349494,402991929,772185579,205810427,486113473,956589553,275768756,940066020>>,
     <<370736239,526048313,129059268,950344577,117192842,967162267,632743006,639096881,970637478,329891341,149408882,401549043,946711295,36365305,2299441,440358156,594401572,672978163,728044309,168785492>>,
     <<1041728746,134949809,353704088,875212719,618656501,151788228,1012163461,486613517,988324681,839889869,190181596,493235690,600847958,594187647,539278566,785102580,231089964,860679493,991753064,600617883>>,
     <<680221597,41725203,555099576,666051978,127732175,353407689,826657253,937835842,538337064,1047748913,767898385,420820052,187135731,1023129885,848203830,1065484095,447915466,199839957,132843049,167411821>>,
     <<477951651,372064858,685377671,334341781,1050308432,622746192,224946367,168664715,961339211,724175774,1024271046,279938125,133014482,112582027,491357119,58368929,382898578,137212174,239662726,361145011>>,
     <<806585289,586300976,773893247,704109375,784575933,351095204,94864183,840509798,901917496,814720005,808589048,441476050,11862620,921088325,511230243,981571980,1069682330,50025433,975311353,425847282>>,
     <<604160309,139640230,239720735,501844860,150902951,342815080,642066274,453588217,777942727,506369514,667991309,788995951,1021813975,24622960,165070173,64034105,1014282547,101627040,662818575,408227161>>,
     <<908495251,456316904,114136743,46451579,201348427,440310805,998588030,17187815,660142836,433827603,603374210,384884256,3794918,1015677333,322565024,357048720,887613175,719090347,68834643,1045727958>>,
     <<291242210,267272273,189414340,658454779,421491849,7469923,25555774,293891580,802691974,973222553,68032603,950526593,334516717,771923498,615261531,383912822,659940066,128729028,396648648,195340983>>,
     <<1027452804,850493430,420594237,18302973,64848103,369376084,270990367,609692524,804300809,829251690,512378642,650295845,165957812,721992726,172838746,714421137,121322647,205059774,902751783,901306213>>,
     <<29388725,543741158,927389828,785489267,708699480,465462766,215413944,1010017327,491598642,742770931,113462993,931192872,876505947,808613679,979028526,115650547,227904566,992307759,15100097,331444619>>,
     <<947686931,224758128,721416369,79997857,256769470,360950991,437244723,488629046,899922402,809248887,329800931,878540853,125924433,158745116,133411088,586544704,818740018,480727115,62640245,652666510>>,
     <<878206529,3240160,87213555,734651912,906262044,864799566,110497568,263571972,741372186,58939468,960712268,168042164,36246161,370341498,653328573,722858139,990421289,321731336,301052377,396804436>>,
     <<586599637,415668264,511317205,91012216,604074900,530473922,199885050,213627096,223925902,1022969815,350817440,32250370,485301652,498316550,993529451,76477628,272335155,718164932,456843496,244363564>>,
     <<884398437,1003759052,128203665,1035407479,886121635,1041826598,1040374683,227636171,829651058,686089978,632477643,556170827,378698744,935552616,241805893,499508443,730585908,217172687,658737779,74494561>>,
     <<586745298,502386327,783001382,435758214,829601233,753486922,596599551,952006162,879665247,986811371,700846193,103861177,543452632,188055193,684654977,451265187,870419034,102095411,940851805,952810164>>,
     <<1020811991,133248574,714356350,54833417,711080065,617169554,652500580,942662349,444024666,773369903,514318622,177677520,414658403,796340975,696984299,812665963,988615828,423175202,1037816710,14286074>>,
     <<302612948,1033387593,766231443,746379363,372034042,916104208,329352464,122565207,289960138,380547324,750913209,516482676,1009743541,608116609,264114913,178373518,483313204,2270587,803828569,384932334>>,
     <<916893345,186003733,491377578,899276313,1048728886,357512453,790794197,1042369386,621429610,573484706,412872361,729981314,348257557,352024164,934338138,649714323,135844439,613652408,825689962,589668673>>,
     <<568247241,686034924,958628555,469419959,212078135,56032445,1001690323,115366360,754052944,959180353,311076894,1056718357,567465616,753624899,323742660,1011665745,722039956,493504348,695695639,1028779508>>,
     <<564258949,623298234,453132727,525885855,1020357185,231551908,223795129,532246309,694173209,237505909,308540647,827213074,74134649,743466962,427426367,734309416,99844776,641678332,387900959,569905573>>,
     <<485280463,59745717,895743338,673441751,778095747,442570380,180831763,594751651,535311970,248832510,340697206,607959249,347455794,735632664,114132317,797644467,4061500,1035970551,33522616,954102791>>,
     <<1011831521,425595012,19524636,563040077,221764743,994740335,856553323,216852366,999356276,326149854,462314948,1029982039,154620114,522720007,355289021,840623399,730064198,445910379,630911187,670199106>>,
     <<335714889,79935686,506852091,509788941,243373329,233653540,397431225,389317128,761043633,167303094,115471204,681709816,691241832,593758184,914829779,34050192,86580193,709313793,573202735,308066762>>,
     <<949253830,120593592,925496562,539344595,874552689,879813598,56143528,836532443,624283475,65600658,398118686,581581561,269927583,598065601,498961119,978164661,333943202,748050709,16876223,585403681>>,
     <<277399744,358456513,65194842,348155043,483303254,936493784,585847926,223303441,982122173,204480196,336873714,380885445,731044770,525850590,640369199,154747002,255153033,527843634,758056164,896905031>>,
     <<708431078,966348551,388539794,39745780,727457045,1006377309,367310868,448891644,469671866,1039459323,917450606,604737523,639713714,233668817,879005297,1002026177,773835462,831325026,99881191,483670645>>,
     <<365424644,994522170,393928859,1003223232,582751819,81145995,406019108,1009388540,885138032,119918084,899872061,732307680,987432793,676683098,522168010,584018173,390810286,861957827,610193222,861221781>>,
     <<1001855188,789399555,383614506,588017881,898849638,669048953,541939556,310286602,170121032,860040854,315306548,217847644,151704258,614763640,114537122,364301687,993471915,1068479605,1038518031,964733457>>,
     <<552613771,76373855,235208249,388198005,573788718,642041404,947645316,377375374,289398372,674147078,200072264,282767357,817729140,378271721,188876519,849857722,538679350,653069864,90406876,54383739>>,
     <<986874237,1014281363,134919195,576419808,42591227,941716914,722145078,203590955,283121409,1070956252,538255184,947615120,643539980,122163071,817667930,65662750,918235423,601488709,294414324,6705296>>,
     <<136343943,283997235,935776711,28255922,690179799,819206770,33695497,588322798,115644788,359535574,959102803,229031466,609833156,567125996,192103738,468519042,558081993,264370488,535930488,358982022>>,
     <<454106304,572022832,108446748,465758166,262384092,315957406,577869162,764135158,365284031,747965382,484011149,39429452,609668285,50538695,792578755,822742966,333769131,24223533,17554711,976240010>>,
     <<920030058,85249204,608902974,445458444,605691590,589362959,992472936,988824324,232943967,346841953,517208429,160312778,1021706384,622968567,840704197,504770179,647031911,917121477,708626058,942554191>>,
     <<565491760,110387486,520641366,236122618,443135779,830387462,1040358037,252260795,449722974,540028156,784375939,511037491,124379840,778929971,613446526,755154560,21946003,735171197,793642469,18465149>>,
     <<159538814,880366597,633055593,609339324,712140515,560226996,415399181,483450280,201141829,123596547,955625725,299756898,958586179,89936742,63184177,59340502,939957565,533559550,1028736883,284941594>>,
     <<389330741,92501782,602518250,92682339,918598705,263707310,966783798,127694244,735454527,989897998,311894143,524117574,1013450389,164071334,178593751,526753213,785650506,189845051,928580202,819738380>>,
     <<999774041,1073694141,154379824,434708858,446313739,757448279,193979866,373343110,474152106,217036131,89631072,1020828128,533781932,721738248,237099772,101387438,556701818,857449047,306066423,685896971>>,
     <<389816687,287277089,81695113,377019700,949555092,29898201,199740818,127866394,136213676,924070803,27481288,859097963,218637083,703475864,431683148,368689369,207011102,467878158,473762515,343413778>>,
     <<1025668749,635330397,600008795,506976174,522122764,857963873,460748618,766504384,811799707,1005628942,414357307,223790964,1038785854,273255265,318356973,548134462,908840317,304064003,905106625,40150238>>,
     <<570489109,1000664747,451298711,207821815,774815618,428240208,899008458,325436386,19409477,848905040,488896556,255477686,825040800,507198237,304733593,953022401,58859768,138511728,284665654,518700329>>,
     <<257447311,295930040,186801783,33006680,68688930,248211013,368159295,221450258,554182647,90040675,641958828,907245392,887263114,477408686,106259863,515741385,764868357,1051800575,158003605,266170975>>,
     <<241530915,560416981,882379098,49459092,210690240,650580532,62785437,446683320,59747586,334426944,24001942,584161713,4723405,869754393,677263477,1038797079,597961081,316166743,472603259,643174231>>,
     <<727505713,520330575,769470467,338101854,193421477,80455334,695697585,235981322,388447837,530499586,336212586,160753019,936975159,957910396,620199416,629554740,247704819,185876264,119116260,987391061>>,
     <<254304333,575115811,687252961,916598124,1020734211,716977824,385005604,960392058,662002334,621324000,338031080,914519071,200467647,373655602,439262344,994795986,789000535,337307391,4818918,211579979>>,
     <<792863907,28031166,750702967,182912499,1037714387,773104866,60479656,263902178,899226729,584720394,894499410,614684019,380043573,126831050,768839228,728360663,971295319,506077549,879344182,61782046>>,
     <<858068498,608657035,495344478,30882313,360264320,218161706,568922881,1008503033,684342558,326483280,559820169,387731491,364690035,135479020,768205136,50533588,533291578,479210116,973883279,579382360>>,
     <<308067628,456655968,754176434,946492307,715216422,700135008,1010473287,219180298,574379960,592523009,151064370,355100083,956011190,101166234,273600830,11675687,142012057,499225454,1070317803,226559000>>,
     <<916158852,811023665,500739615,516229256,1028677796,775011663,623632352,1018192793,259337982,189327756,464402266,740068907,465172736,702164757,697709525,128622058,610851297,209510873,476221469,312708904>>,
     <<363068782,639229447,260463105,745214584,443051466,325234607,570470664,561636291,813323677,1062844414,563793147,898641351,961117928,38989600,608097552,673468200,367315126,118916107,1020527349,948296841>>,
     <<986677012,861250509,228393802,640530301,539600879,538453138,1050903355,954706697,133833500,1021577458,547976106,541143486,517333482,884614545,1022250858,115306588,178631397,377200570,535765668,606814642>>,
     <<118795587,378384985,677264217,618260725,565636575,927837866,696942520,378158453,700032795,827296022,1055649066,706555404,657831392,284042037,476633883,31873239,759962502,994202939,518383976,742270805>>,
     <<177372351,392285228,741565396,141376467,151477963,342367624,472384843,625789847,399343364,145171826,967903162,525645869,849980295,777165771,574160172,224228034,568591786,344070847,715014346,1012345563>>,
     <<447517430,156964151,411199608,198355276,412942581,945977538,741191279,240826583,1007971413,456848268,280432125,330021533,825801919,419350866,1051985742,331803817,12801783,786860081,690244935,499610761>>,
     <<1013130638,366428219,144526702,344409568,255860146,946395772,260819925,489598922,277443491,223227177,522256785,402217237,795530186,432300410,857982751,974713501,206783739,793151748,379802645,69053773>>,
     <<685554539,277214376,519707066,150733427,799212379,773114897,380507312,384773066,833628650,859614646,754979888,285137451,637404695,888878248,104831823,48905088,532751411,777260954,473444583,208761027>>,
     <<623568088,795406686,213210951,896566312,117687937,1034038048,50985652,914232313,144566609,537746668,623016869,849558549,941170317,984276096,53721676,322075023,188718157,986075373,557288099,907790718>>,
     <<271246486,714608840,785795143,699354567,1053309877,22296884,195099135,473077449,175888509,323330796,563178862,383152703,681209711,138466020,18286211,455128707,388142259,1042286502,936724130,836254789>>,
     <<1042585310,631882308,596416459,528151208,868998501,535493091,720116629,428469540,652129222,467970631,765367731,1044733845,904911011,830715350,627957104,779314643,1014247589,369455153,895991648,690655380>>,
     <<138755128,294151808,924844000,430955718,617785773,339740592,175292476,988280049,170539406,1052160409,31967952,390302383,688285800,748473367,687924933,638361220,779623884,522931083,445454198,351487676>>,
     <<436239841,1032384618,305953576,97698332,978327792,450444433,67810165,725439294,339832584,1058268934,884882098,758037352,1038794264,157785374,95391578,376734619,660750927,404595416,715165930,732780711>>,
     <<726747095,964818469,542035303,618286523,171764725,185055431,337351806,679988773,80702081,480722909,627476224,1061699339,760830260,446088127,739350673,776569443,366771744,464471290,102556034,729480034>>,
     <<698447237,349298230,942683059,643383595,77086176,470410713,630056397,38249820,816310100,138109728,560078612,1067846462,647688638,465994662,218158758,800221977,458310462,270708798,760813747,491563736>>,
     <<336375639,386303128,707700177,473899887,50286217,531805965,614061903,230750627,474886540,688615040,876619023,654131237,580274486,524721091,690402498,676603632,422687078,978759615,692292011,598387575>>,
     <<172912431,400384242,840242163,472289332,751585966,1066257581,121407054,54495237,578501086,852221680,1016693358,296976472,937107302,525505593,778862808,467687043,1044495859,332228373,835551535,784370647>>,
     <<196837443,1036456139,614742122,875212307,462880877,875888351,75114369,867223643,1002880755,728221440,1031093665,1053069724,1055285413,816580700,731162452,47060389,613647609,696228267,1831093,734396395>>,
     <<225194115,780793245,495362960,856603740,278131033,830111297,157322547,809649373,733617351,1024527235,1032350470,620484473,452021113,776098116,625332297,355050013,827374464,239426328,169121397,193445253>>,
     <<10388946,1072708096,269519162,257482805,227897618,690468878,114493029,664416148,578352672,138327751,616344976,614744657,624565989,228970947,476945043,813060245,390972301,772384619,1066762137,358236453>>,
     <<903978090,771937212,554934945,959948153,12093436,783749021,308232452,351241666,300469210,765832112,696131406,504103568,491895747,481135977,298468411,439692223,289201446,516333937,911282877,925566055>>,
     <<856741930,261438733,762677370,930082755,662921611,429776476,838757449,1035035884,355608490,842840361,801767038,1011009785,203928190,15512336,1069335929,123975330,766782242,147268638,376922389,56173485>>,
     <<594724884,212185704,977722974,749178317,235988860,386080058,412611629,39330032,214383337,521655130,1031019931,822764473,643753767,774447277,731762236,413701819,941246330,669612100,190516230,1070665316>>,
     <<994030438,159592838,716953660,597832904,517559752,430959755,196168211,244555610,1062444943,167291369,620166024,819247071,847076169,736041362,227108742,349981416,1064882694,900828190,181565713,740667747>>,
     <<717551640,814213460,583248645,438059745,169505241,227333974,245623809,278442924,56062304,708155325,397949941,480722637,1072885555,641844568,573448228,427341148,915922106,383979638,457503677,588282994>>,
     <<380913555,304327019,669886588,386127390,116858134,1065708984,531980774,675664979,533397957,775271453,490044346,504536225,164678812,214390290,453833514,386400905,1002585229,719002497,584469583,1021832632>>,
     <<58664795,311927079,516864010,155767952,679256064,437308144,271346697,523900815,1034129538,805948055,940047506,739860960,101167245,120641645,881303083,999989971,77605513,1001830583,968525286,347075502>>,
     <<491432882,630384500,248948482,979440732,379667585,777170013,857390929,965464334,826074039,901293256,50998220,601443066,184359895,655069206,917112668,12221620,591265743,1051955746,173959982,1002561928>>,
     <<189283002,1038730182,568913591,7212628,851148578,766388059,837601359,511973156,346484271,699568813,287099990,214521812,898220816,53411521,494371116,24095611,304545020,502114017,541273088,1040423112>>,
     <<257967845,758580577,365927732,119673521,1054643728,1068417355,263924841,638958688,835253011,730233851,361830239,400694376,527523506,372846776,61305572,580253528,1026687559,800402922,729699139,716568627>>,
     <<60032187,954586546,656476563,702492560,679800634,414059978,758921752,238314202,898299330,28970733,126095226,734730099,838683812,458007496,995337729,376989598,770077217,265963575,794456022,496277378>>,
     <<1054423638,39731333,122877985,600906242,1052752382,328217327,898232148,142415796,210266820,468773974,377008357,1065557427,567424919,415880435,334264560,879001441,605220395,378089765,944861489,285455543>>,
     <<884106900,1037576289,1042739643,452184386,1007628113,445020269,342076687,1025557885,670833272,391357070,106358088,711423124,529543550,954675023,723512227,615483813,811907421,529258458,325245813,47610649>>,
     <<902731994,68630279,871888056,72533844,490006724,598314768,1046968835,621726265,323017641,714140908,171760108,517446751,744290385,57293335,285360630,946069725,193422469,276015505,246712666,160128181>>,
     <<469715610,639385689,151613609,694691145,77444035,910726406,182015305,734765598,295790197,1011842904,730515711,203404522,54294060,291473952,737512259,12441562,999920731,808632386,569624768,968767697>>,
     <<161716417,873743528,932177345,997654641,39799526,337806080,977174265,781706991,301701924,700274697,845767907,1015071099,196089589,830329586,221388521,161581260,3051122,848084823,46389680,1011432123>>,
     <<396113416,880323599,243805538,258149474,283888356,39441019,24922907,76627277,823934683,926666863,956894919,1065957289,834373365,765393950,939600678,138718562,893774477,460229764,218164563,101622585>>,
     <<1058607839,163364695,687622669,771870517,832688901,857975763,747355357,184106568,6207436,146578921,479017278,953197055,874965415,261914066,212549676,265076241,1016170337,512697599,346016970,451502619>>,
     <<852028608,136753327,121410093,312151492,268566775,460427750,79290878,722089583,672446911,866697703,430987765,423946976,542695263,310241009,211443470,856666520,822835867,875826611,1058157837,871932964>>,
     <<963457607,743820358,215988951,107664671,139503693,986952797,14294053,857160522,112055784,491041703,326927838,811603311,880596074,95589908,903334197,250143805,646276958,307251419,443804459,830704690>>,
     <<250449989,606179302,224884976,236978428,16395771,157356357,143283167,561789366,114028409,594993934,518299071,573622960,650129612,504518440,735131265,491131450,801632117,207927077,655698020,68297258>>,
     <<606432576,616710176,163340397,333833181,510113756,913688404,573130326,298975102,140079889,432852645,36138823,302215573,1022614958,509854398,735253721,46208529,701995648,177988643,593027762,503121010>>,
     <<1063679662,323792148,364191925,629553936,618948514,418664583,185521874,288794620,625510786,683887540,975400528,432003099,691797586,795433661,291051217,824761379,102486938,1034401287,56840063,842724744>>,
     <<236559422,781883531,361309199,550673244,671892009,268287344,402169274,729768339,1019591705,606385052,408335643,791949300,300910201,98823974,797306859,662993003,675271955,473100160,189906761,699378334>>,
     <<774706659,701187222,158818741,638787692,472977303,1006301751,860371346,245202759,1073186468,903900518,261969250,734860545,805782809,855746558,974049667,245468766,565203415,840677939,340995800,265803527>>,
     <<808934726,1058149071,759381610,781443442,919602581,985696693,221233991,32140532,895200517,364169154,261081693,415006982,988918288,614515436,833692276,414152263,285469263,473635236,422990264,983161325>>,
     <<1027594432,272632793,690206854,569186309,748588094,397055644,49844346,525672185,575953962,1076418,837759473,65857861,810846747,779428429,36916212,90636300,206888100,350681517,22995720,624833901>>,
     <<374426388,316156499,203395560,476250186,148461710,216687397,410837357,380576582,161339588,999953642,172247384,413078251,245792507,1001775516,455341918,53514304,85351268,126011488,691715490,674229383>>,
     <<23759588,681492852,499296852,111407044,99564573,149313334,180727619,248588618,820162416,886999085,238608098,58462360,395193630,581071712,824943223,890936839,441755243,296539554,886524057,668103219>>,
     <<740960037,821392770,747305017,1005352922,647257076,89493809,387857291,523045244,425467777,189273099,140498257,1023770089,932413041,1051836447,167261543,755977173,1058305953,639519029,886596276,194638586>>,
     <<994731210,161558335,947509454,1304260,1050565884,609605552,690804582,482529204,981827358,886543516,164533671,394114826,53942327,735038431,463251840,718037436,195025137,575362018,497433694,352570107>>,
     <<109770770,567600848,213641823,825784513,736483646,348483522,550572407,525292415,1036851202,699186475,480453174,179736166,533198344,103097421,60039624,744377449,43628961,751873388,722590840,825347911>>,
     <<836488949,25075886,207860465,317291245,223100360,444191331,355254484,459721578,987471043,501101216,738508883,325901077,915384311,670391050,768968339,970454231,935256270,173795260,1000018200,1037914300>>,
     <<390401070,189159507,40802480,48915162,382147966,243770807,213325776,1033189703,916734296,247593108,875401759,756244162,230193996,199004169,118509554,653475489,329281825,333247789,5594330,529562678>>,
     <<729136064,145723529,420840476,45990029,944183171,141103395,556907125,752460026,762265010,115591806,164310000,404826551,812162269,449789952,420237402,160562419,890904150,1060303531,165748122,702527866>>,
     <<912926850,112347609,694215176,298951594,946614154,730918616,121624428,104745477,931214288,993946002,581078283,187501415,295703955,201738114,856260711,557832232,21860613,571831082,108831919,58608174>>,
     <<1048436775,827558858,327677420,698698328,423064486,127159905,537537709,926788636,227254589,114591010,843028596,395738432,294340157,508932726,408837190,975995159,110592457,173574464,32066904,70839934>>,
     <<880575810,553467137,1020520622,883286262,644018937,933664103,943058195,67939635,509571986,616164748,418568772,1058960396,1032375489,238319873,567965888,330580545,294942889,284470700,716300472,59267366>>,
     <<215525039,993969214,719053794,236623829,332265763,257087501,1071169297,1062666666,153290216,676789394,237892861,154424924,269147417,251872311,847426906,939320496,501080433,798747086,812256641,895887227>>,
     <<470543230,709695906,545615483,539426737,325515310,276975438,34569284,793782740,689901432,651284259,461071713,60868706,573309290,305488570,1030665188,756762540,236521139,909016383,636137543,944973431>>,
     <<35460878,475217961,1020876110,779838043,1059363376,558178432,956740457,856138026,528387477,891836907,749161008,252307011,914486949,784812000,307423909,635709750,215796651,429974120,633070623,888975910>>,
     <<1063135101,1012456323,378801899,897169378,995101562,394369842,158560414,215235966,695237423,722486345,597236671,690900433,393274799,938197078,586002708,778133847,445527067,550579811,226236416,795213692>>,
     <<50637798,908382480,459943441,910192202,64686738,383307506,81093757,306611534,929610282,369198198,439872237,66445928,829582644,916863841,203416560,706988526,978076768,1009976797,1003790731,489929612>>,
     <<611462921,606451523,828798455,757564563,242461881,868407556,493769507,75116465,574718821,334108844,537703705,900463507,745292606,257492967,6147939,727505073,683946043,684563411,830490471,814584387>>,
     <<927618258,367347850,935398475,908501359,376356917,598462579,253617158,681485583,1022915976,949827888,953514836,340971947,432274058,331103116,79595095,263286122,296832917,399225088,57975193,599358211>>,
     <<955943391,975439286,156556982,419569521,292952024,456606138,844233819,783545370,1014636600,84051804,331401434,107215833,335120828,793586166,1034613823,572518794,534182371,852390222,935731035,437511092>>,
     <<181263705,196412538,137260858,655753975,960042369,49395182,712263788,842315912,394861245,1046094963,596703080,305291112,211834057,845050818,973429744,248348719,961663984,296010290,85743012,835534157>>,
     <<702334899,496417433,23144416,749209304,813778285,49483852,150560647,124387687,940490688,728327704,996946680,256856338,680520421,1000604622,852199550,106297318,437663329,966626609,1042055797,108791507>>,
     <<717823649,586896742,912336546,591479036,732420201,676554325,141700438,841431101,590538274,64748657,651857539,293399521,744566778,63603568,65252890,672000417,812698496,303359832,110724568,19445098>>,
     <<906461729,576183596,728031174,102288309,190663208,710512739,144202723,303751714,411684658,403271822,388637381,218049159,508169695,172138491,298752548,719702659,574226394,110304251,942702227,832703452>>,
     <<853510563,501040434,591418767,459355059,396543479,20259062,383509399,547465080,248132211,144885755,958769277,68023816,922653932,476285639,365073522,762343029,718330021,219150363,992689515,788292663>>,
     <<1009630943,721251845,435675966,931120343,142012383,57704995,337896917,254633269,29588423,455640775,686054960,465522721,371605990,501522113,810374954,748352031,691641930,834312176,1061449762,298124475>>,
     <<907536991,1070771657,640242335,537570415,753988369,458363624,103446175,586605209,92013529,296695689,60844939,786719828,992072330,62189287,649213077,913302500,285549753,1030701351,876015825,339118369>>,
     <<810342814,379851659,970954230,148004595,812742463,664849759,624947639,204722615,645467445,125781745,695606640,163292044,295160335,49888427,41621769,57818392,142407329,489824987,667851057,459406461>>,
     <<97983098,141250146,660905888,432127328,294931988,646450130,915310015,220600450,1013197183,737111938,630102023,282893697,253165758,125030241,42159237,874057143,955998823,316672290,196248239,53876797>>,
     <<20136964,1057452997,135395220,862125283,909075637,9917624,429589603,293176591,863737690,379039849,449361021,448533708,597281868,227186542,421014976,436248085,729865120,853246557,589758077,873060427>>,
     <<223967656,969914384,315972067,93541663,225583152,185269292,630357061,339192356,348291297,631977802,599519104,184359227,232516859,892675057,4180377,613556444,817103930,343917791,406108351,149479652>>,
     <<60660854,20939522,226724592,868594083,192890692,812500709,131573082,929134666,225656779,1048394844,922822042,316395200,368249241,417128698,138442354,989298371,779259101,812461032,968904969,513821284>>,
     <<217952597,231017306,886879010,998190231,928511922,332218507,165299384,375162355,403312719,608602392,612612445,887846758,686189773,174971663,205964435,990557908,327250747,734375634,851366245,411747493>>,
     <<579147342,1068166138,444060114,273947229,226537207,357879449,517031804,762307599,567901850,317534130,270132550,133332709,438639764,974928430,1020568516,224118637,899166142,1004675745,402360714,492880003>>,
     <<644067111,271196390,570250341,438013038,575084706,177456502,48066734,936430670,500841147,805414660,1053170527,78203957,525611309,369374152,31777487,228330539,713642214,699188438,373407104,968654021>>,
     <<384739701,135636119,679684213,175527194,560237423,682911174,928753922,57566417,872881957,376895881,952424464,66487080,801973463,957199200,249992083,213015667,432072680,365605512,780487815,774549223>>,
     <<486086811,67408480,208263629,467247735,331659481,549002740,171751699,412212215,731506611,276254890,647595433,743902771,673319999,566905117,353005469,803961716,1039816071,1036845111,406497103,833007187>>,
     <<509966870,493139785,880323729,1054884754,673974872,137102253,149513130,26267213,494718109,718864628,45366423,569265297,434116437,618681507,525413750,581505688,536783286,987788039,663675699,567246590>>,
     <<863712467,545853774,609786260,528978950,658852771,169614928,690941822,687323649,129035890,319919455,253594946,232227216,686232765,74634348,695123489,827896217,1006605207,211528661,829855252,793570948>>,
     <<28268337,605430679,512043521,62796414,579475409,1059089692,625193090,669314534,464903948,570865573,552990231,981111772,455772251,53246403,798937257,545987156,338656700,910428100,485878761,72557761>> >>

\* the k-th output (k >= 1) of the generator seeded with seed, masked
rk_random(seed, k, mask) ==
    (MTBits[seed + 1][(k - 1) \div 5 + 1] \div (64 ^ ((k - 1) % 5))) % (mask + 1)

\* smallest 2^b - 1 that is >= max
rk_mask(max) ==
    IF max <= 1 THEN 1 ELSE IF max <= 3 THEN 3 ELSE IF max <= 7 THEN 7
    ELSE IF max <= 15 THEN 15 ELSE IF max <= 31 THEN 31 ELSE 63

\* rk_interval: rejection sampling of a value in 0..max; st is the number of
\* outputs consumed so far.  Result <<value, outputs consumed>>.
RECURSIVE rk_interval(_, _, _)
rk_interval(seed, st, max) ==
    LET v == rk_random(seed, st + 1, rk_mask(max))
    IN  IF v <= max THEN <<v, st + 1>> ELSE rk_interval(seed, st + 1, max)

Swap(a, i, j) == [a EXCEPT ![i] = a[j], ![j] = a[i]]

\* one iteration of RandomState.shuffle: j = rk_interval(i); swap x[i], x[j].
\* s is <<the array, outputs consumed>>; the array is 1-indexed here.
shuffle_step(s, i, seed) ==
    LET r == rk_interval(seed, s[2], i)
    IN  <<Swap(s[1], i + 1, r[1] + 1), r[2]>>

\* the iterations i = hi, hi - 1, ..., lo of RandomState.shuffle, in that
\* order; the upper half is evaluated (its count read) before the lower
\* half starts
RECURSIVE shuffle_range(_, _, _, _)
shuffle_range(s, hi, lo, seed) ==
    IF hi < lo THEN s
    ELSE IF hi = lo THEN shuffle_step(s, hi, seed)
    ELSE LET mid == (hi + lo) \div 2
             upper == shuffle_range(s, hi, mid + 1, seed)
         IN  IF upper[2] >= s[2] THEN shuffle_range(upper, mid, lo, seed) ELSE upper

\* RandomState.shuffle: for i in reversed(range(1, n)): j = rk_interval(i);
\* swap x[i], x[j].  a is 1-indexed here, holding the values 0..n-1.
shuffle(a, i, seed, st) == shuffle_range(<<a, st>>, i, 1, seed)

\* RandomState.permutation(n) from generator state [seed, used]:
\* <<the permutation of 0..n-1, the generator state after it>>
permutation(g, n) ==
    LET r == shuffle([i \in 1..n |-> i - 1], n - 1, g.seed, g.used)
    IN  <<r[1], [seed |-> g.seed, used |-> r[2]]>>

\* RandomState.choice(n, size, replace=False): permutation(n)[:size]
choice(g, n, size) ==
    LET r == permutation(g, n) IN <<[i \in 1..size |-> r[1][i]], r[2]>>

\* a fresh RandomState(seed), as random_state=seed builds it
RandomState(seed) == [seed |-> seed, used |-> 0]

(* ------------------------------ pandas -------------------------------- *)
Key(r) == <<r[1], r[2]>>

\* rows of df at the positions in S, in order: F[lo, hi] holds those at the
\* positions lo..hi
Take(df, S) ==
    LET F[lo \in 1..(Len(df) + 1), hi \in 0..Len(df)] ==
            IF lo > hi THEN <<>>
            ELSE IF lo = hi THEN (IF lo \in S THEN <<df[lo]>> ELSE <<>>)
            ELSE F[lo, (lo + hi) \div 2] \o F[(lo + hi) \div 2 + 1, hi]
    IN  F[1, Len(df)]

\* DataFrame.duplicated(subset=[cdr3, epitope], keep=...): flagged positions
\* (NaN equals NaN here, as in pandas)
duplicated(df, keep) ==
    {i \in DOMAIN df :
        \E j \in DOMAIN df :
            /\ Key(df[j]) = Key(df[i])
            /\ CASE keep = "first" -> j < i
                 [] keep = "last"  -> j > i
                 [] OTHER          -> j # i}

\* the new rows put in front of df
prepend(df, other) == other \o df

\* DataFrame.append(other).reset_index(drop=True): the rows of other after
\* those of df
append(df, other) == df \o other

\* drop_duplicates with keep=False: every row of a repeated pair is dropped
drop_every_duplicated(df) == Take(df, DOMAIN df \ duplicated(df, "False"))

\* drop_duplicates(keep="last"): the last row of every pair is kept
drop_duplicates_keep_last(df) == Take(df, DOMAIN df \ duplicated(df, "last"))

\* DataFrame.drop_duplicates(subset=[cdr3, epitope], keep="first")
drop_duplicates(df) == Take(df, DOMAIN df \ duplicated(df, "first"))

\* dropna left out: rows without an epitope stay
keepna(df) == df

\* DataFrame.dropna(subset=[epitope])
dropna(df) == Take(df, {i \in DOMAIN df : df[i][2] # NaN})

\* Series.unique(): first occurrences, in order
unique(s) == Take(s, {i \in DOMAIN s : \A j \in 1..(i - 1) : s[j] # s[i]})

Column(df, k) == [i \in DOMAIN df |-> df[i][k]]

\* Series.sample(n=k, random_state=seed), k <= Len(s): the values at the
\* first k positions of RandomState(seed).permutation(Len(s))
sample(s, k, seed) ==
    LET idx == choice(RandomState(seed), Len(s), k)[1]
    IN  [i \in 1..k |-> s[idx[i] + 1]]

(* ===================== sampling strategies ============================ *)
Warn(kind, item, count) == [kind |-> kind, item |-> item, count |-> count]

\* the reference file alone, without the concat of line 62
reference_only(ref, df) == ref

\* add_negatives, lines 56-65: the reference file merged with the pairs of
\* df, duplicates dropped; only membership of a pair is ever read
merge_full_df(ref, df) == ref \cup {Key(df[i]) : i \in DOMAIN df}

\* the columns of a table read with usecols=["cdr3", "antigen.epitope"]
columns_as_read(full_df) == {"cdr3", "antigen.epitope"}

\* full_df.columns (lines 276 and 366): a row of a table with a label column
\* is a triple <<cdr3, epitope, y>>
columns(full_df) ==
    IF \E r \in full_df : Len(r) = 3
    THEN {"cdr3", "antigen.epitope", "y"}
    ELSE {"cdr3", "antigen.epitope"}

\* sample_epitope_per_cdr3, line 377
epitopes_to_exclude(cdr3, full_df) == {p[2] : p \in {q \in full_df : q[1] = cdr3}}

\* lines 393-395 without the isin filter: every epitope of df
all_epitopes(cdr3, df, full_df) == Column(df, 2)

\* lines 393-395 with the candidates taken from full_df instead of df
epitopes_of_full_df(cdr3, df, full_df) ==
    Take(EpitopeNames, {i \in DOMAIN EpitopeNames :
                           /\ EpitopeNames[i] \in {p[2] : p \in full_df}
                           /\ EpitopeNames[i] \notin epitopes_to_exclude(cdr3, full_df)})

\* sample_epitope_per_cdr3, lines 393-395: the epitope column of df without
\* the excluded epitopes, not deduplicated
possible_epitopes(cdr3, df, full_df) ==
    LET col == Column(df, 2)
    IN  Take(col, {i \in DOMAIN col : col[i] \notin epitopes_to_exclude(cdr3, full_df)})

\* sample_epitope_per_cdr3, lines 398-411: the sampled pair <<cdr3, epitope>>
sample_epitope_per_cdr3(cdr3, df, full_df, seed) ==
    LET poss == possible_epitopes(cdr3, df, full_df)
    IN  IF poss = <<>> THEN <<cdr3, NaN>>
        ELSE <<cdr3, sample(poss, 1, seed)[1]>>

\* the warning of lines 399-402, for the sampled pairs that came back NaN
unsatisfiable_warnings(pairs) ==
    {Warn("cdr3_discarded", pairs[i][1], 0) : i \in {j \in DOMAIN pairs : pairs[j][2] = NaN}}

\* sample_cdr3s_per_epitope, line 287
cdr3_to_exclude(epitope, full_df) == {p[1] : p \in {q \in full_df : q[2] = epitope}}

\* sample_cdr3s_per_epitope, lines 288-290
possible_cdr3(epitope, df, full_df) ==
    LET col == Column(df, 1)
    IN  unique(Take(col, {i \in DOMAIN col : col[i] \notin cdr3_to_exclude(epitope, full_df)}))

\* sample_cdr3s_per_epitope, line 284 read as shape[1]: the number of columns
required_columns(epitope, df) == Len(df[1])

\* sample_cdr3s_per_epitope, line 284: the positive rows of the epitope
required_rows(epitope, df) == Cardinality({i \in DOMAIN df : df[i][2] = epitope})

\* sample_cdr3s_per_epitope, line 303-307: may the clipping branch log?  The
\* name logger is bound only by line 294, in the empty-pool branch.
clip_logger_bound(acc) == acc.logger

\* sample_cdr3s_per_epitope, lines 282-318: the loop over the unique
\* epitopes.  acc: negative_list (one frame of pairs per epitope), logger
\* (is the local name bound), np (global generator), err, warn.
RECURSIVE per_epitope_loop(_, _, _, _)
per_epitope_loop(eps, df, full_df, acc) ==
    IF eps = <<>> \/ acc.err # "none" THEN acc
    ELSE
      LET epitope == Head(eps)
          n == required_rows(epitope, df)
          poss == possible_cdr3(epitope, df, full_df)
          size == IF n > Len(poss) THEN Len(poss) ELSE n
          drawn == choice(acc.np, Len(poss), size)
          sample_df == [i \in 1..size |-> <<poss[drawn[1][i] + 1], epitope>>]
      IN  IF Len(poss) = 0
          THEN per_epitope_loop(Tail(eps), df, full_df,
                   [acc EXCEPT !.logger = TRUE,
                               !.warn = @ \cup {Warn("epitope_discarded", epitope, 0)}])
          ELSE IF n > Len(poss) /\ ~clip_logger_bound(acc)
          THEN [acc EXCEPT !.err = "UnboundLocalError"]
          ELSE per_epitope_loop(Tail(eps), df, full_df,
                   [acc EXCEPT !.negative_list = Append(@, sample_df),
                               !.np = drawn[2],
                               !.warn = IF n > Len(poss)
                                        THEN @ \cup {Warn("epitope_clipped", epitope, Len(poss))}
                                        ELSE @])

RECURSIVE concat(_)
concat(frames) == IF frames = <<>> THEN <<>> ELSE Head(frames) \o concat(Tail(frames))

\* sample_cdr3s_per_epitope as a whole; pd.concat of an empty list raises
sample_cdr3s_per_epitope(df, full_df, np) ==
    LET acc == per_epitope_loop(unique(Column(df, 2)), df, full_df,
                   [negative_list |-> <<>>, logger |-> FALSE, np |-> np,
                    err |-> "none", warn |-> {}])
    IN  [negative_df |-> concat(acc.negative_list),
         np   |-> acc.np,
         warn |-> acc.warn,
         err  |-> IF acc.err # "none" THEN acc.err
                  ELSE IF acc.negative_list = <<>> THEN "ValueError" ELSE "none"]

\* line 76 left out: the global generator stays as the caller left it
seed_global_missing(np) == np

\* np.random.seed(42), line 76
seed_global(np) == RandomState(42)

\* line 49 comparing against 0 instead of 1
no_epitope(df) == Len(unique(Column(df, 2))) = 0

\* line 49: only one epitope in df
single_epitope(df) == Len(unique(Column(df, 2))) = 1

\* lines 214-216 stripped (python -O): nothing is checked
assertion_stripped(df) == TRUE

\* lines 214-216: no duplicated pair is left
no_duplicates_remain(df) == duplicated(df, "first") = {}

\* shuffled_df["y"] = 0 (lines 104, 203)
label0(pairs) == [i \in DOMAIN pairs |-> <<pairs[i][1], pairs[i][2], 0>>]

\* lines 125-130: the label values among all rows that have a duplicate
duplicate_labels(df) == {df[i][3] : i \in duplicated(df, "False")}

\* lines 136-145 and 208-211
dedup(df) == dropna(drop_duplicates(df))

Positives(df) == Take(df, {i \in DOMAIN df : df[i][3] = 1})
Negatives(df) == Take(df, {i \in DOMAIN df : df[i][3] = 0})

\* line 152 and lines 158, 162
HardThreshold == 100
SoftThreshold == 50

(* ============================ inputs ================================== *)
\* s uses the names in order of first use (names are opaque to the code, so
\* every corpus is a renaming of one of these)
FirstUseOrder(s, names) ==
    \A i \in DOMAIN s :
        \E k \in 1..Len(names) :
            /\ names[k] = s[i]
            /\ k <= 1 + Cardinality({s[j] : j \in 1..(i - 1)})

\* the positive corpora: 1..MaxRows rows, every one labelled 1
PositiveCorpora ==
    UNION {{[i \in 1..L |-> <<t[i][1], t[i][2], 1>>] :
              t \in {u \in [1..L -> AllPairs] :
                        /\ FirstUseOrder(Column(u, 1), CDR3Names)
                        /\ FirstUseOrder(Column(u, 2), EpitopeNames)}} :
           L \in 1..MaxRows}

\* the positive corpora of MaxRows + 1 rows with two or more epitopes and no
\* pair twice: long enough for a source in two rows to have two permitted
\* targets
WiderCorpora ==
    {[i \in 1..(MaxRows + 1) |-> <<t[i][1], t[i][2], 1>>] :
        t \in {u \in [1..(MaxRows + 1) -> AllPairs] :
                  /\ FirstUseOrder(Column(u, 1), CDR3Names)
                  /\ FirstUseOrder(Column(u, 2), EpitopeNames)
                  /\ Cardinality(Range(Column(u, 2))) >= 2
                  /\ \A i, j \in 1..(MaxRows + 1) : i # j => u[i] # u[j]}}

\* the positive corpora that hold a pair twice: a corpus with its first row
\* given once more
RepeatedCorpora == {<<c[1]>> \o c : c \in PositiveCorpora}

\* long corpora: source A in two rows, source B in two rows, the first m
\* sources of XSources with target X, and source D with target T2 after
\* the first k of them
XSources ==
    <<
       "C01", "C02", "C03", "C04", "C05", "C06", "C07", "C08", "C09",
       "C10", "C11", "C12", "C13", "C14", "C15", "C16", "C17", "C18",
       "C19", "C20", "C21", "C22", "C23", "C24", "C25", "C26", "C27"
    >>

LongCorpus(m, k) ==
    <<<<"A", "P1", 1>>, <<"A", "P2", 1>>, <<"B", "Y", 1>>, <<"B", "Z", 1>>>>
        \o [i \in 1..k |-> <<XSources[i], "X", 1>>]
        \o <<<<"D", "T2", 1>>>>
        \o [i \in 1..(m - k) |-> <<XSources[k + i], "X", 1>>]

LongCorpora ==
    UNION {{LongCorpus(m, k) : k \in 0..m} :
           m \in {Len(XSources) - 1, Len(XSources)}}

\* a reference file for them: B is bound to every target but X, A is bound
\* to Y and Z, every source but A is bound to T2.  Every source keeps a
\* permitted target.
LongReference ==
    {<<"B", e>> : e \in {"P1", "P2", "Y", "Z", "T2"}}
        \cup {<<"A", "Y">>, <<"A", "Z">>}
        \cup {<<c, "T2">> : c \in Range(XSources) \cup {"B", "D"}}

\* another one: B is bound to every target but X, A is bound to Y and Z,
\* every other source is bound to every target but Y.  Every source keeps
\* a permitted target, and no source has a spare one once A holds X and T2.
SaturatedReference ==
    {<<"B", e>> : e \in {"P1", "P2", "Y", "Z", "T2"}}
        \cup {<<"A", "Y">>, <<"A", "Z">>}
        \cup {<<c, e>> : c \in Range(XSources) \cup {"D"},
                         e \in {"P1", "P2", "X", "Z", "T2"}}

\* the names s uses and the first name it does not use
WithNextName(s, names) ==
    {names[k] : k \in {j \in 1..Len(names) : j <= 1 + Cardinality(Range(s))}}

\* the reference files for a corpus, as sets of at most MaxRef pairs.  Items
\* foreign to the corpus are never looked up, so one foreign cdr3 and one
\* foreign epitope stand for all of them.
References(corpus) ==
    {r \in SUBSET (WithNextName(Column(corpus, 1), CDR3Names)
                     \X WithNextName(Column(corpus, 2), EpitopeNames)) :
        Cardinality(r) <= MaxRef}

\* the reference files that make one source of the corpus a universal cdr3
\* (line 144): the source is bound to every epitope of the corpus that none
\* of its rows holds
UniversalReferences(corpus) ==
    {{<<c, e>> : e \in Range(Column(corpus, 2))
                       \ {corpus[i][2] : i \in {j \in DOMAIN corpus : corpus[j][1] = c}}} :
        c \in Range(Column(corpus, 1))}

\* the background pools of augment_negatives (values may repeat): cdr3s
\* foreign to the corpus, in order of first use, and the first cdr3 of the
\* corpus, which a control file may hold as well
Pools ==
    UNION {{p \in [1..L -> Range(PoolNames) \cup {CDR3Names[1]}] :
              FirstUseOrder(Take(p, {i \in 1..L : p[i] \in Range(PoolNames)}),
                            PoolNames)} :
           L \in 1..MaxPool}

\* rounds of the augment_negatives loop the model follows
MaxAugRounds == 101

\* the seeds of a direct call of sample_epitope_per_cdr3 are 0..MaxSeed
MaxSeed == 2

(* ============================= state ================================== *)
VARIABLES
    mode,            \* "per_source" (epitope_ratio=False), "per_target" (True), "augment",
                     \* or a direct call: "sample_epitope_per_cdr3", "sample_cdr3s_per_epitope"
    pos_df,          \* argument df: the positive corpus
    ref,             \* pairs of the file at full_dataset_path
    pool,            \* negative_source.data[cdr3_header]
    req,             \* argument amount of augment_negatives
    full_df,         \* local full_df of add_negatives
    df,              \* local df: the working set, the returned table at the end
    to_do_df,        \* local to_do_df: the rows flagged as duplicates
    shuffled_pairs,  \* local shuffled_pairs: the pairs of the last sampling pass
    sampled,         \* the (cdr3, seed) arguments of the sample_epitope_per_cdr3
                     \* calls made by the last pass or retry round
    n,               \* local n: retry rounds of add_negatives
    amount,          \* local amount of augment_negatives after line 444
    seed,            \* local seed of augment_negatives
    pc,              \* "call", "loop", "final", "aug_loop", "returned", "raised"
    err,             \* the exception raised, "none" otherwise
    log,             \* the warnings logged by this call
    np_state,        \* numpy's global generator
    np_before,       \* numpy's global generator when this call started
    call,            \* 1 or 2: which of two calls on the same inputs is running
    out1             \* outcome of the first call

vars == <<mode, pos_df, ref, pool, req, full_df, df, to_do_df, shuffled_pairs,
          sampled, n, amount, seed, pc, err, log, np_state, np_before, call, out1>>

inputs == <<mode, pos_df, ref, pool, req>>

NoOutcome == [pc |-> "none", df |-> <<>>, err |-> "none", log |-> {}]
Outcome == [pc |-> pc, df |-> df, err |-> err, log |-> log]

\* the state a call starts in, whatever its arguments
Fresh ==
    /\ full_df = {}
    /\ df = pos_df
    /\ to_do_df = <<>>
    /\ shuffled_pairs = <<>>
    /\ sampled = <<>>
    /\ n = 0
    /\ amount = 0
    /\ seed = 0
    /\ pc = "call"
    /\ err = "none"
    /\ log = {}
    /\ np_state = RandomState(0)
    /\ np_before = np_state
    /\ call = 1
    /\ out1 = NoOutcome

\* a call of add_negatives(df, full_dataset_path, epitope_ratio)
Init ==
    /\ mode \in {"per_source", "per_target"}
    /\ pos_df \in PositiveCorpora
    /\ ref \in References(pos_df)
    /\ pool = <<>>
    /\ req = 0
    /\ Fresh

\* a call of augment_negatives(negative_source, df, cdr3_range, amount)
InitAugment ==
    /\ mode = "augment"
    /\ pos_df \in PositiveCorpora
    /\ ref = {}
    /\ pool \in Pools
    /\ req \in 1..MaxRows
    /\ Fresh

\* a call of add_negatives on a corpus that holds a pair twice
InitRepeated ==
    /\ mode \in {"per_source", "per_target"}
    /\ pos_df \in RepeatedCorpora
    /\ ref \in References(pos_df)
    /\ pool = <<>>
    /\ req = 0
    /\ Fresh

\* a call of add_negatives with a reference file that holds exactly the
\* pairs of the corpus
InitIdentical ==
    /\ mode \in {"per_source", "per_target"}
    /\ pos_df \in PositiveCorpora
    /\ ref = {Key(pos_df[i]) : i \in DOMAIN pos_df}
    /\ pool = <<>>
    /\ req = 0
    /\ Fresh

\* a per-source call of add_negatives on a corpus of MaxRows + 1 rows
InitWider ==
    /\ mode = "per_source"
    /\ pos_df \in WiderCorpora
    /\ ref \in References(pos_df)
    /\ pool = <<>>
    /\ req = 0
    /\ Fresh

\* a per-source call of add_negatives with a reference file that leaves
\* one source of the corpus without a permitted target
InitUniversal ==
    /\ mode = "per_source"
    /\ pos_df \in PositiveCorpora
    /\ ref \in UniversalReferences(pos_df)
    /\ pool = <<>>
    /\ req = 0
    /\ Fresh

\* a per-source call of add_negatives on a long corpus
InitLong ==
    /\ mode = "per_source"
    /\ pos_df \in LongCorpora
    /\ ref \in {LongReference, SaturatedReference}
    /\ pool = <<>>
    /\ req = 0
    /\ Fresh

\* the table full_df with a label column y
Labelled(full) == {<<p[1], p[2], 1>> : p \in full}

\* a direct call of sample_epitope_per_cdr3(cdr3, df, full_df, seed) or of
\* sample_cdr3s_per_epitope(df, full_df); full_df is an argument, with or
\* without a label column, and sampled holds the arguments cdr3 and seed
InitStrategy ==
    /\ mode \in {"sample_epitope_per_cdr3", "sample_cdr3s_per_epitope"}
    /\ pos_df \in PositiveCorpora
    /\ ref \in References(pos_df)
    /\ pool = <<>>
    /\ req = 0
    /\ full_df \in {merge_full_df(ref, pos_df), Labelled(merge_full_df(ref, pos_df))}
    /\ df = pos_df
    /\ to_do_df = <<>>
    /\ shuffled_pairs = <<>>
    /\ IF mode = "sample_epitope_per_cdr3"
       THEN \E c \in {pos_df[i][1] : i \in DOMAIN pos_df} :
            \E s \in 0..MaxSeed : sampled = <<<<c, s>>>>
       ELSE sampled = <<>>
    /\ n = 0
    /\ amount = 0
    /\ seed = 0
    /\ pc = "call"
    /\ err = "none"
    /\ log = {}
    /\ np_state \in {RandomState(0), RandomState(42)}
    /\ np_before = np_state
    /\ call = 1
    /\ out1 = NoOutcome

Raise(e) == pc' = "raised" /\ err' = e

(* ========================== add_negatives ============================= *)
\* lines 49-53: only one epitope, the input is returned
SingleEpitopeReturn ==
    /\ pc = "call" /\ mode \in {"per_source", "per_target"}
    /\ single_epitope(df)
    /\ log' = log \cup {Warn("single_epitope", "", 0)}
    /\ pc' = "returned"
    /\ UNCHANGED <<inputs, full_df, df, to_do_df, shuffled_pairs, sampled, n, amount, seed,
                   err, np_state, np_before, call, out1>>

\* lines 103-145 after a sampling pass: merge, flag duplicates, assert the
\* duplicates carry one label, and (per-source only) drop duplicates and NaN
MergeAndCheck(shuffled, dedupe) ==
    LET merged == append(df, label0(shuffled))
    IN  /\ to_do_df' = Take(merged, duplicated(merged, "last"))
        /\ IF Cardinality(duplicate_labels(merged)) > 1
           THEN /\ df' = merged
                /\ Raise("AssertionError")
                /\ n' = n
           ELSE /\ df' = IF dedupe THEN dedup(merged) ELSE merged
                /\ pc' = IF dedupe THEN "loop" ELSE "final"
                /\ err' = err
                /\ n' = 0

\* lines 55-65 and 79-145, epitope_ratio=False: one epitope per row of df,
\* seeded by the row's position
InitialPassPerSource ==
    /\ pc = "call" /\ mode = "per_source"
    /\ ~single_epitope(df)
    /\ \E full \in {merge_full_df(ref, df)} :
       \E pairs \in {[i \in DOMAIN df |->
                         sample_epitope_per_cdr3(df[i][1], df, full, i - 1)]} :
           /\ full_df' = full
           /\ sampled' = [i \in DOMAIN df |-> <<df[i][1], i - 1>>]
           /\ shuffled_pairs' = pairs
           /\ log' = log \cup unsatisfiable_warnings(pairs)
           /\ MergeAndCheck(pairs, TRUE)
    /\ UNCHANGED <<inputs, amount, seed, np_state, np_before, call, out1>>

\* lines 55-77 and 103-130, epitope_ratio=True: cdr3s per epitope from the
\* global generator; no duplicate removal, no retry loop
InitialPassPerTarget ==
    /\ pc = "call" /\ mode = "per_target"
    /\ ~single_epitope(df)
    /\ \E full \in {merge_full_df(ref, df)} :
       \E r \in {sample_cdr3s_per_epitope(df, full, seed_global(np_state))} :
           /\ full_df' = full
           /\ np_state' = r.np
           /\ log' = log \cup r.warn
           /\ IF r.err # "none"
              THEN /\ Raise(r.err)
                   /\ UNCHANGED <<df, to_do_df, n>>
              ELSE MergeAndCheck(r.negative_df, FALSE)
    /\ UNCHANGED <<inputs, shuffled_pairs, sampled, amount, seed, np_before, call, out1>>

\* lines 162-199: the cdr3s sampled again in retry round k
retry_cdr3s(k, work, todo) ==
    IF k > SoftThreshold
    THEN sample(Column(Positives(work), 1), Len(todo), 42 + k)
    ELSE Column(todo, 1)

\* lines 150-211: one iteration of the retry loop
RetryRound ==
    /\ pc = "loop" /\ to_do_df # <<>>
    /\ n' = n + 1
    /\ IF n + 1 > HardThreshold
       THEN \* lines 152-157: warn and break
            /\ log' = log \cup {Warn("exhausted", "", Len(to_do_df))}
            /\ pc' = "final"
            /\ UNCHANGED <<df, to_do_df, shuffled_pairs, sampled, err>>
       ELSE IF n + 1 > SoftThreshold /\ Len(to_do_df) > Len(Positives(df))
       THEN \* Series.sample(n > population, replace=False)
            /\ Raise("ValueError")
            /\ UNCHANGED <<df, to_do_df, shuffled_pairs, sampled, log>>
       ELSE \E cdr3s \in {retry_cdr3s(n + 1, df, to_do_df)} :
            \E pairs \in {IF n + 1 = SoftThreshold
                           THEN shuffled_pairs   \* lines 158-161 only warn
                           ELSE [i \in DOMAIN cdr3s |->
                                    sample_epitope_per_cdr3(cdr3s[i], df, full_df, n + 1)]} :
            \E merged \in {append(df, label0(pairs))} :
                /\ sampled' = IF n + 1 = SoftThreshold
                              THEN <<>>
                              ELSE [i \in DOMAIN cdr3s |-> <<cdr3s[i], n + 1>>]
                /\ shuffled_pairs' = pairs
                /\ log' = log
                       \cup (IF n + 1 = SoftThreshold
                             THEN {Warn("soft", "", Len(to_do_df))}
                             ELSE unsatisfiable_warnings(pairs))
                /\ to_do_df' = Take(merged, duplicated(merged, "last"))
                /\ df' = dedup(merged)
                /\ UNCHANGED <<pc, err>>
    /\ UNCHANGED <<inputs, full_df, amount, seed, np_state, np_before, call, out1>>

\* line 150: the loop condition is false
LoopExit ==
    /\ pc = "loop" /\ to_do_df = <<>>
    /\ pc' = "final"
    /\ UNCHANGED <<inputs, full_df, df, to_do_df, shuffled_pairs, sampled, n, amount, seed,
                   err, log, np_state, np_before, call, out1>>

\* lines 213-229: the final assertion, then the return
Finish ==
    /\ pc = "final"
    /\ IF ~no_duplicates_remain(df)
       THEN Raise("AssertionError")
       ELSE pc' = "returned" /\ err' = err
    /\ UNCHANGED <<inputs, full_df, df, to_do_df, shuffled_pairs, sampled, n, amount, seed,
                   log, np_state, np_before, call, out1>>

(* ========================= augment_negatives ========================== *)
\* lines 416-445: the first sample of amount pairs, merge, drop duplicates
AugmentFirstRound ==
    /\ pc = "call" /\ mode = "augment"
    /\ LET pos_epitopes == Column(Positives(df), 2)
       IN  IF req > Len(pos_epitopes) \/ req > Len(pool)
           THEN /\ Raise("ValueError")
                /\ UNCHANGED <<df, to_do_df, amount, seed>>
           ELSE LET epitopes == sample(pos_epitopes, req, 42)
                    cdr3 == sample(pool, req, 42)
                    negative_df == [i \in 1..req |-> <<cdr3[i], epitopes[i], 0>>]
                    merged == append(df, negative_df)
                IN  /\ to_do_df' = Take(merged, duplicated(merged, "last"))
                    /\ df' = drop_duplicates(merged)
                    /\ amount' = Cardinality(duplicated(merged, "last"))
                    /\ seed' = 42
                    /\ pc' = "aug_loop"
                    /\ err' = err
    /\ UNCHANGED <<inputs, full_df, shuffled_pairs, sampled, n, log, np_state, np_before,
                   call, out1>>

\* lines 446-468: one iteration of the duplicate loop.  Line 449 samples the
\* column "y", so the new rows carry no epitope.
AugmentRetryRound ==
    /\ pc = "aug_loop" /\ amount > 0
    /\ seed - 42 < MaxAugRounds
    /\ seed' = seed + 1
    /\ IF amount > Len(Positives(df)) \/ amount > Len(pool)
       THEN /\ Raise("ValueError")
            /\ UNCHANGED <<df, to_do_df, amount>>
       ELSE LET cdr3 == sample(pool, amount, seed + 1)
                negative_df == [i \in 1..amount |-> <<cdr3[i], NaN, 0>>]
                merged == append(df, negative_df)
            IN  /\ to_do_df' = Take(merged, duplicated(merged, "last"))
                /\ df' = drop_duplicates(merged)
                /\ amount' = Cardinality(duplicated(merged, "last"))
                /\ UNCHANGED <<pc, err>>
    /\ UNCHANGED <<inputs, full_df, shuffled_pairs, sampled, n, log, np_state, np_before,
                   call, out1>>

\* line 470
AugmentReturn ==
    /\ pc = "aug_loop" /\ amount = 0
    /\ pc' = "returned"
    /\ UNCHANGED <<inputs, full_df, df, to_do_df, shuffled_pairs, sampled, n, amount, seed,
                   err, log, np_state, np_before, call, out1>>

(* ==================== direct calls of the strategies ================== *)
\* lines 325-411: sample_epitope_per_cdr3 called on its own; the pair it
\* returns is kept in shuffled_pairs
CallSampleEpitopePerCdr3 ==
    /\ pc = "call" /\ mode = "sample_epitope_per_cdr3"
    /\ IF "y" \in columns(full_df)
       THEN \* line 366
            /\ Raise("AssertionError")
            /\ UNCHANGED <<shuffled_pairs, log>>
       ELSE \E pair \in {sample_epitope_per_cdr3(sampled[1][1], df, full_df,
                                                  sampled[1][2])} :
            /\ shuffled_pairs' = <<pair>>
            /\ log' = log \cup unsatisfiable_warnings(<<pair>>)
            /\ pc' = "returned"
            /\ err' = err
    /\ UNCHANGED <<inputs, full_df, df, to_do_df, sampled, n, amount, seed, np_state,
                   np_before, call, out1>>

\* lines 232-322: sample_cdr3s_per_epitope called on its own, drawing from the
\* global generator as it stands; the pairs it returns are kept in
\* shuffled_pairs
CallSampleCdr3sPerEpitope ==
    /\ pc = "call" /\ mode = "sample_cdr3s_per_epitope"
    /\ IF "y" \in columns(full_df)
       THEN \* line 276
            /\ Raise("AssertionError")
            /\ UNCHANGED <<shuffled_pairs, log, np_state>>
       ELSE \E r \in {sample_cdr3s_per_epitope(df, full_df, np_state)} :
            /\ np_state' = r.np
            /\ log' = log \cup r.warn
            /\ IF r.err # "none"
               THEN Raise(r.err) /\ UNCHANGED shuffled_pairs
               ELSE /\ shuffled_pairs' = r.negative_df
                    /\ pc' = "returned"
                    /\ err' = err
    /\ UNCHANGED <<inputs, full_df, df, to_do_df, sampled, n, amount, seed, np_before,
                   call, out1>>

(* ====================== a second call, same inputs ==================== *)
\* The first call is over; other code draws OtherDraws values from the global
\* generator, then add_negatives is called again on the same arguments.
Reinvoke ==
    /\ pc \in {"returned", "raised"} /\ call = 1
    /\ np_state' = [np_state EXCEPT !.used = @ + OtherDraws]
    /\ np_before' = np_state'
    /\ out1' = Outcome
    /\ call' = 2
    /\ full_df' = {} /\ df' = pos_df /\ to_do_df' = <<>> /\ shuffled_pairs' = <<>>
    /\ sampled' = <<>>
    /\ n' = 0 /\ amount' = 0 /\ seed' = 0
    /\ pc' = "call" /\ err' = "none" /\ log' = {}
    /\ UNCHANGED inputs

Next ==
    \/ SingleEpitopeReturn
    \/ InitialPassPerSource
    \/ InitialPassPerTarget
    \/ RetryRound
    \/ LoopExit
    \/ Finish

\* one call of add_negatives
Spec == Init /\ [][Next]_vars

NextAugment ==
    \/ AugmentFirstRound
    \/ AugmentRetryRound
    \/ AugmentReturn

\* one call of augment_negatives
SpecAugment == InitAugment /\ [][NextAugment]_vars

NextTwice ==
    \/ Next
    \/ Reinvoke

\* two calls of add_negatives on the same arguments
SpecTwice == Init /\ [][NextTwice]_vars

\* one call of add_negatives on a corpus that holds a pair twice
SpecRepeated == InitRepeated /\ [][Next]_vars

\* one call of add_negatives, the reference file identical to the corpus
SpecIdentical == InitIdentical /\ [][Next]_vars

NextPerSource ==
    \/ InitialPassPerSource
    \/ RetryRound
    \/ LoopExit
    \/ Finish

\* one per-source call of add_negatives on a long corpus
SpecLong == InitLong /\ [][NextPerSource]_vars

\* one per-source call of add_negatives on a corpus of MaxRows + 1 rows
SpecWider == InitWider /\ [][NextPerSource]_vars

\* one call of add_negatives, on the inputs of Spec or with a universal cdr3
SpecUniversal == (Init \/ InitUniversal) /\ [][Next]_vars

\* one call of either function, on any of the inputs above
InitAny == Init \/ InitRepeated \/ InitAugment

NextAny ==
    \/ Next
    \/ NextAugment

SpecAny == InitAny /\ [][NextAny]_vars

NextStrategy ==
    \/ CallSampleEpitopePerCdr3
    \/ CallSampleCdr3sPerEpitope

\* one direct call of a sampling strategy
SpecStrategy == InitStrategy /\ [][NextStrategy]_vars

(* ============================= claims ================================= *)
PosPairs == {Key(pos_df[i]) : i \in DOMAIN pos_df}
PosCdr3s == {pos_df[i][1] : i \in DOMAIN pos_df}
PosEpitopes == {pos_df[i][2] : i \in DOMAIN pos_df}
Done == pc \in {"returned", "raised"}
Shuffling == mode \in {"per_source", "per_target"}
RepeatedPairs == duplicated(pos_df, "first") # {}

\* label-0 rows of the working set with this cdr3 / this epitope
NegRowsOfCdr3(c) == {i \in DOMAIN df : df[i][3] = 0 /\ df[i][1] = c}
NegRowsOfEpitope(e) == {i \in DOMAIN df : df[i][3] = 0 /\ df[i][2] = e}
PosRowsOfCdr3(c) == {i \in DOMAIN pos_df : pos_df[i][1] = c}
PosRowsOfEpitope(e) == {i \in DOMAIN pos_df : pos_df[i][2] = e}

\* the known positive pairs: the positive corpus and the reference corpus
KnownPositive == ref \cup PosPairs
\* targets of the corpus a source may be paired with, sources a target may
PermittedTargets(c) == {e \in PosEpitopes : <<c, e>> \notin KnownPositive}
PermittedSources(e) == {c \in PosCdr3s : <<c, e>> \notin KnownPositive}

\* C1: in both shuffling modes, after the initial pass and after every retry
\* round, no label-0 row of the working set is a positive pair of the
\* positive corpus or of the reference corpus.
C1_NoFalseNegatives ==
    Shuffling =>
        \A i \in DOMAIN df : df[i][3] = 0 => Key(df[i]) \notin KnownPositive

\* C1 witness: a retry round has run, and a row it left pairs a source with
\* a target although the reference alone forbids that source another target
\* of the corpus.
C1_Witness ==
    /\ mode = "per_source" /\ pc = "loop" /\ n >= 1
    /\ \E i \in DOMAIN df :
          /\ df[i][3] = 0
          /\ \E e \in PosEpitopes : <<df[i][1], e>> \in ref \ PosPairs

\* C2 as stated: whenever add_negatives returns a table, no two rows of it
\* share a (source, target) pair.
C2_NoDuplicatesOnAnyReturn ==
    (Shuffling /\ pc = "returned") => duplicated(df, "first") = {}

\* C2 amended: whenever add_negatives returns a table for a corpus with more
\* than one distinct target (that is, after sampling: converged or
\* exhausted, either mode), no two rows share a (source, target) pair.
C2_NoDuplicatesAfterSampling ==
    (Shuffling /\ pc = "returned" /\ Cardinality(PosEpitopes) # 1)
        => duplicated(df, "first") = {}

\* C2 witness: the retry loop was exhausted and a table with negatives came back
C2_Witness ==
    /\ mode = "per_source" /\ pc = "returned" /\ n > HardThreshold
    /\ \E i \in DOMAIN df : df[i][3] = 0

\* C3: the second of two calls with the same corpus, reference and mode ends
\* as the first did and returns the same table row for row, whatever the
\* global generator held before each call.
C3_Determinism ==
    (call = 2 /\ Done) => (pc = out1.pc /\ (pc = "returned" => df = out1.df))

\* C3 witness: the second per-target call started from another generator
\* state than the first and returned a table with negatives.
C3_Witness ==
    /\ call = 2 /\ pc = "returned" /\ mode = "per_target"
    /\ np_before # RandomState(0)
    /\ \E i \in DOMAIN df : df[i][3] = 0

\* C4: in per-source mode every source of the corpus with a
\* permitted target has exactly one label-0 row in the returned table.
C4_OneNegativePerSource ==
    (mode = "per_source" /\ pc = "returned") =>
        \A c \in PosCdr3s :
            PermittedTargets(c) # {} => Cardinality(NegRowsOfCdr3(c)) = 1

\* C5: in per-target mode, a target whose pool of permitted sources is at
\* least as large as its number of positive rows has as many label-0 rows
\* in the returned table as it has positive rows.
C5_PerTargetExactness ==
    (mode = "per_target" /\ pc = "returned") =>
        \A e \in PosEpitopes :
            Cardinality(PermittedSources(e)) >= Cardinality(PosRowsOfEpitope(e))
                => Cardinality(NegRowsOfEpitope(e)) = Cardinality(PosRowsOfEpitope(e))

\* C5 witness: a returned per-target table in which a target with a pool
\* larger than its number of positive rows got as many negatives as it has
\* positive rows
C5_Witness ==
    /\ mode = "per_target" /\ pc = "returned"
    /\ \E e \in PosEpitopes :
          /\ Cardinality(PermittedSources(e)) > Cardinality(PosRowsOfEpitope(e))
          /\ Cardinality(NegRowsOfEpitope(e)) = Cardinality(PosRowsOfEpitope(e))

\* C6: for every corpus and reference, add_negatives performs at most
\* HardThreshold retry rounds and then returns a table; it never raises.
\* (Stated for corpora without a repeated pair: a repeated pair can trip
\* the duplicate assertions, which are meant to raise.)
C6_TerminatesByReturning ==
    (Shuffling /\ ~RepeatedPairs) => (n <= HardThreshold + 1 /\ pc # "raised")

\* the retry loop itself: in per-source mode, without a repeated pair,
\* nothing raises and the round counter stops at HardThreshold + 1
RetryLoopReturns ==
    (mode = "per_source" /\ ~RepeatedPairs) => (n <= HardThreshold + 1 /\ pc # "raised")

\* C7: the duplicate loop of augment_negatives stops within the bounded
\* number of rounds that is the engine's only runtime bound.
C7_AugmentLoopBounded ==
    mode = "augment" => seed - 42 <= HardThreshold

\* C8: with exactly one distinct target in the corpus, add_negatives (either
\* mode) returns the input unchanged after a warning, and never builds the
\* merged reference.
C8_SingleTargetUnchanged ==
    (Shuffling /\ Cardinality(PosEpitopes) = 1 /\ pc # "call") =>
        /\ pc = "returned"
        /\ df = pos_df
        /\ Warn("single_epitope", "", 0) \in log
        /\ full_df = {}

\* C8 witness: a single-target corpus of several rows came back while the
\* reference file held a pair
C8_Witness ==
    /\ Shuffling /\ pc = "returned"
    /\ Cardinality(PosEpitopes) = 1 /\ Len(pos_df) >= 2 /\ ref # {}

\* C9: in per-target mode, with at least two distinct targets, a target
\* bound to every source of the corpus is skipped with a warning and the
\* build returns a table without label-0 rows for it.  (Stated for corpora
\* without a repeated pair, which the final assertion rejects.)
C9_EmptyPoolSkipped ==
    (mode = "per_target" /\ Cardinality(PosEpitopes) >= 2 /\ ~RepeatedPairs /\ Done) =>
        \A e \in PosEpitopes :
            PermittedSources(e) = {} =>
                /\ pc = "returned"
                /\ Warn("epitope_discarded", e, 0) \in log
                /\ NegRowsOfEpitope(e) = {}

\* C10: in per-target mode, a target with more positive rows than its
\* non-empty pool has sources is clipped with a warning, gets exactly
\* |pool| label-0 rows, and the build returns.  (Stated for corpora without
\* a repeated pair, which the final assertion rejects.)
C10_PoolClipped ==
    (mode = "per_target" /\ Cardinality(PosEpitopes) >= 2 /\ ~RepeatedPairs /\ Done) =>
        \A e \in PosEpitopes :
            (/\ PermittedSources(e) # {}
             /\ Cardinality(PermittedSources(e)) < Cardinality(PosRowsOfEpitope(e)))
                => /\ pc = "returned"
                   /\ Warn("epitope_clipped", e, Cardinality(PermittedSources(e))) \in log
                   /\ Cardinality(NegRowsOfEpitope(e)) = Cardinality(PermittedSources(e))

\* C11: when the positive corpus repeats a pair (so the duplicate check
\* after merging flags a label-1 row), add_negatives ends by raising; it
\* never returns a table from which a label-1 row was dropped.
C11_LabelOneDuplicatesRaise ==
    (Shuffling /\ RepeatedPairs /\ Cardinality(PosEpitopes) # 1 /\ Done)
        => pc = "raised"

\* C12: in every working set of add_negatives and augment_negatives, also
\* for a corpus that repeats a pair or a pool that holds a cdr3 of the
\* corpus, each pair of the positive corpus is present with label 1 and no
\* label-0 row carries a pair of the positive corpus.
C12_PositivesKept ==
    \A p \in PosPairs :
        /\ \E i \in DOMAIN df : df[i] = <<p[1], p[2], 1>>
        /\ \A i \in DOMAIN df : Key(df[i]) = p => df[i][3] = 1

\* C12 witness: a returned per-source table from which deduplication
\* removed a repeated label-1 row and which holds negatives
C12_Witness ==
    /\ mode = "per_source" /\ pc = "returned"
    /\ Len(Positives(df)) < Len(pos_df)
    /\ Negatives(df) # <<>>

\* C13: in every working set of the three modes, every label-1 row comes
\* before every label-0 row, and the label-1 rows are the rows of the
\* positive corpus in their input order (a repeated row once, where
\* duplicates were dropped).
C13_PositivesFirst ==
    /\ \A i, j \in DOMAIN df : (df[i][3] = 0 /\ df[j][3] = 1) => j < i
    /\ Positives(df) \in {pos_df, drop_duplicates(pos_df)}

\* C13 witness: augment_negatives returned after a retry round, with
\* negatives behind the positives
C13_Witness ==
    /\ mode = "augment" /\ pc = "returned" /\ seed > 42
    /\ Negatives(df) # <<>>

\* C14: in per-source mode, for a corpus without a repeated pair in which
\* every source has a permitted target, a table returned after the retry
\* loop ended with no duplicates left has as many label-0 rows as label-1
\* rows.  (It holds on the corpora of Spec; a 31-row corpus refutes it.)
C14_ExactCountOnConvergence ==
    (/\ mode = "per_source" /\ pc = "returned"
     /\ Cardinality(PosEpitopes) # 1
     /\ ~RepeatedPairs
     /\ \A c \in PosCdr3s : PermittedTargets(c) # {}
     /\ to_do_df = <<>>)
        => Len(Negatives(df)) = Len(Positives(df))

\* C15: when add_negatives returns after the retry count passed the hard
\* threshold, the count in the exhaustion warning is the number of positive
\* rows minus the number of label-0 rows of the returned table.
C15_ReportedShortfall ==
    (mode = "per_source" /\ pc = "returned" /\ n > HardThreshold) =>
        Warn("exhausted", "", Len(pos_df) - Len(Negatives(df))) \in log

\* C16: in per-source mode (past the single-target check, corpus without a
\* repeated pair), a source without a permitted target is warned about,
\* does not make the call raise, and has no label-0 row in the working set
\* after any round.
C16_UnsatisfiableExcluded ==
    (/\ mode = "per_source" /\ pc # "call"
     /\ Cardinality(PosEpitopes) # 1
     /\ ~RepeatedPairs) =>
        \A c \in PosCdr3s :
            PermittedTargets(c) = {} =>
                /\ pc # "raised"
                /\ NegRowsOfCdr3(c) = {}
                /\ Warn("cdr3_discarded", c, 0) \in log

\* C16 witness: a random-subset round after the soft threshold has drawn a
\* source without a permitted target; the draw gave no target, the source
\* has no label-0 row, and the working set holds label-0 rows of others
C16_Witness ==
    /\ mode = "per_source" /\ pc \in {"loop", "final", "returned"}
    /\ n > SoftThreshold
    /\ ~RepeatedPairs
    /\ \E k \in DOMAIN sampled :
          /\ sampled[k][2] = n
          /\ PermittedTargets(sampled[k][1]) = {}
          /\ shuffled_pairs[k] = <<sampled[k][1], NaN>>
          /\ NegRowsOfCdr3(sampled[k][1]) = {}
          /\ Warn("cdr3_discarded", sampled[k][1], 0) \in log
    /\ Negatives(df) # <<>>

\* C17: every label-0 row in the working set of augment_negatives, after
\* the first round and after every retry round, carries a target that
\* occurs in a label-1 row.
C17_AugmentedTargetsPositive ==
    mode = "augment" =>
        \A i \in DOMAIN df : df[i][3] = 0 => df[i][2] \in PosEpitopes

\* C18: when a call of add_negatives has returned, in either mode, numpy's
\* global generator is in the state it had when the call started.
C18_GlobalGeneratorUntouched ==
    (Shuffling /\ pc = "returned") => np_state = np_before

\* C19: for the corpus (A,X),(B,Y),(C,X) with an identical reference file,
\* per-source mode draws neither (A,X) nor (C,X) whatever the seed, needs
\* no retry round, and returns the three positives followed by (A,Y,0),
\* (B,X,0), (C,Y,0).
C19_ThreePairScenario ==
    (/\ mode = "per_source"
     /\ pos_df = <<<<"A", "X", 1>>, <<"B", "Y", 1>>, <<"C", "X", 1>>>>
     /\ pc # "call") =>
        /\ pc \in {"loop", "final", "returned"}
        /\ n = 0
        /\ to_do_df = <<>>
        /\ df = pos_df \o <<<<"A", "Y", 0>>, <<"B", "X", 0>>, <<"C", "Y", 0>>>>
        /\ \A s \in 0..(Len(MTBits) - 1) : \A i \in DOMAIN pos_df :
              sample_epitope_per_cdr3(pos_df[i][1], pos_df, full_df, s)
                  \notin {<<"A", "X">>, <<"C", "X">>}

\* C19 witness: the scenario has returned
C19_Witness ==
    /\ mode = "per_source" /\ pc = "returned"
    /\ pos_df = <<<<"A", "X", 1>>, <<"B", "Y", 1>>, <<"C", "X", 1>>>>
    /\ ref = {<<"A", "X">>, <<"B", "Y">>, <<"C", "X">>}
    /\ Len(df) = 6

\* C20: in every retry round numbered 1 to the soft threshold, the cdr3s
\* sampled afresh in the round are the cdr3s of the rows the preceding
\* duplicate check flagged, one draw per flagged row.
C20_TargetedRetries ==
    [][(pc = "loop" /\ to_do_df # <<>> /\ n' = n + 1 /\ n' <= SoftThreshold) =>
           Column(sampled', 1) = Column(to_do_df, 1)]_vars

\* seeds the initial pass used for cdr3 c: the positions of its rows (line 98)
InitialSeeds(c) == {i - 1 : i \in PosRowsOfCdr3(c)}

\* C21: in per-source mode every draw of a retry round for a source item
\* uses a seed strictly greater than every seed an earlier pass used for
\* that item.  Earlier retry rounds used their round numbers, all below n;
\* the initial pass used the positions of the item's rows.
C21_SeedsAdvancePerItem ==
    (mode = "per_source" /\ n >= 1 /\ pc # "raised") =>
        \A k \in DOMAIN sampled :
            /\ sampled[k][2] = n
            /\ \A s \in InitialSeeds(sampled[k][1]) : sampled[k][2] > s

\* C22: in per-source mode two different rows sampled in the same pass
\* (the initial pass or a retry round) never receive the same seed.
C22_NoSharedSeedInPass ==
    mode = "per_source" =>
        \A i, j \in DOMAIN sampled : i # j => sampled[i][2] # sampled[j][2]

\* C23: the exclusion index is built once from the reference file merged
\* with the positive corpus; in the initial pass and in every retry round the
\* forbidden targets of a source and the forbidden sources of a target are
\* those of that merge, and no label-0 row of the working set enters it.
C23_ExclusionIndexFixed ==
    (Shuffling /\ pc # "call" /\ ~single_epitope(pos_df)) =>
        /\ full_df = KnownPositive
        /\ \A c \in PosCdr3s :
              epitopes_to_exclude(c, full_df) =
                  {e \in Range(EpitopeNames) : <<c, e>> \in KnownPositive}
        /\ \A e \in PosEpitopes :
              cdr3_to_exclude(e, full_df) =
                  {c \in Range(CDR3Names) : <<c, e>> \in KnownPositive}
        /\ \A i \in DOMAIN df : df[i][3] = 0 => Key(df[i]) \notin full_df

\* a second retry round has run on a working set that holds label-0 rows
C23_Witness ==
    /\ mode = "per_source" /\ pc = "loop" /\ n >= 2
    /\ Negatives(df) # <<>>
    /\ full_df = KnownPositive
    /\ ref # {} /\ ~(PosPairs \subseteq ref)

\* C24: a sampling strategy that is handed a reference table with a label
\* column fails with an error before it produces a pair: nothing is returned,
\* nothing is logged, the global generator and the working set are untouched.
C24_LabelledReferenceRejected ==
    (mode \in {"sample_epitope_per_cdr3", "sample_cdr3s_per_epitope"}
        /\ (\E r \in full_df : Len(r) = 3) /\ pc # "call") =>
            /\ pc = "raised" /\ err = "AssertionError"
            /\ shuffled_pairs = <<>>
            /\ df = pos_df
            /\ log = {}
            /\ np_state = np_before

\* the per-epitope strategy has rejected a labelled table
C24_Witness ==
    /\ mode = "sample_cdr3s_per_epitope"
    /\ \E r \in full_df : Len(r) = 3
    /\ pc = "raised" /\ err = "AssertionError"
    /\ shuffled_pairs = <<>> /\ df = pos_df

\* C25: for a corpus without repeated pairs, after every round of
\* augment_negatives the label-0 rows kept plus the rows still flagged as
\* duplicates number `amount` (the argument), and a returned table holds
\* exactly `amount` label-0 rows.
C25_AugmentReachesAmount ==
    (mode = "augment" /\ ~RepeatedPairs /\ pc \in {"aug_loop", "returned"}) =>
        /\ Len(Negatives(df)) + amount = req
        /\ amount = Len(to_do_df)
        /\ pc = "returned" => Len(Negatives(df)) = req

\* a call that asked for two or more rows has returned after a retry round
C25_Witness ==
    /\ mode = "augment" /\ ~RepeatedPairs /\ pc = "returned"
    /\ req >= 2 /\ seed > 42
    /\ Len(Negatives(df)) = req

\* C26: in both shuffling modes every label-0 row of the working set, after
\* the initial pass and after every retry round, pairs a source of some
\* label-1 row with a target of some label-1 row of the corpus; an item that
\* occurs in the reference file only is never introduced.
C26_RecombinationClosure ==
    (Shuffling /\ pc \in {"loop", "final", "returned"}) =>
        \A i \in DOMAIN df :
            df[i][3] = 0 => (df[i][1] \in PosCdr3s /\ df[i][2] \in PosEpitopes)

\* a retry round has run, the working set holds label-0 rows, and the
\* reference file names a target that no row of the corpus has
C26_Witness ==
    /\ mode = "per_source" /\ pc \in {"loop", "final", "returned"} /\ n >= 1
    /\ Negatives(df) # <<>>
    /\ \E p \in ref : p[2] \notin PosEpitopes /\ p[1] \in PosCdr3s

\* C27: a row that is in the working set after a deduplication step stays
\* where it is, unchanged, through every later retry round and up to the
\* return; a round only adds rows behind the rows already accepted.
C27_AcceptedRowsStable ==
    [][(Shuffling /\ pc \in {"loop", "final"}) =>
          /\ Len(df') >= Len(df)
          /\ \A i \in DOMAIN df : df'[i] = df[i]]_vars

\* retry rounds have run and the working set now holds one label-0 row per
\* corpus row, more than the initial pass had left
C27_Witness ==
    /\ mode = "per_source" /\ ~RepeatedPairs /\ pc = "returned" /\ n >= 2
    /\ to_do_df = <<>>
    /\ Len(pos_df) >= 3
    /\ Len(Negatives(df)) = Len(pos_df)

\* C28: in the retry loop the number of rows flagged as duplicates after
\* round n is never larger than after round n - 1, for every round up to the
\* hard threshold, the round at the soft threshold included.
C28_ShortfallNeverGrows ==
    [][(mode = "per_source" /\ pc = "loop" /\ n' = n + 1) =>
          Len(to_do_df') <= Len(to_do_df)]_vars

\* C29: in per-source mode, for a corpus without repeated pairs, the working
\* set never holds more label-0 rows than label-1 rows: after the initial
\* pass, after every retry round and in the returned table.
C29_NegativesAtMostPositives ==
    (mode = "per_source" /\ ~RepeatedPairs /\ pc \in {"loop", "final", "returned"}) =>
        Len(Negatives(df)) <= Len(Positives(df))

\* C30: in per-target mode a corpus with a repeated row never
\* yields a returned table; the call aborts at the final no-duplicates
\* assertion, without a retry round.
C30_RepeatedPairAbortsAtFinal ==
    (mode = "per_target" /\ RepeatedPairs /\ Done) =>
        /\ pc = "raised" /\ err = "AssertionError"
        /\ Cardinality(duplicate_labels(df)) <= 1
        /\ n = 0

====
